---- MODULE Spec2Model ----
(***************************************************************************)
(* Transaction log (write-ahead log) of the key-value store: the file      *)
(* backed and the Postgres backed TransactionLogger, their committer and   *)
(* replay goroutines, and the recovery driver initializeTransactionLog.    *)
(*                                                                         *)
(* Text is modelled as a sequence of words: a word is a non-empty run of   *)
(* characters that holds no white space, and a key or a value is the       *)
(* sequence of its words ("" is << >>, "a" is <<"a">>, "x y" is            *)
(* <<"x", "y">>).  A line of the log file is the sequence of its white     *)
(* space separated tokens, which is all that fmt.Sscanf tells apart.       *)
(*                                                                         *)
(* The loggers are those of the file that holds both backends; logger.go   *)
(* holds the same file logger with a committer that ends after the write,  *)
(* without the switch that applies the event to the store.  The store      *)
(* itself (Put, Delete) is not part of the sources at hand and is modelled *)
(* as the map its tests describe; its operations return no error.          *)
(***************************************************************************)
EXTENDS Integers, Sequences, FiniteSets, TLC

\* ------------------------------------------------------------------ bounds

\* writes the handlers submit in a run of the main specification
MaxCalls == 2
\* process restarts in a run of the main specification
MaxRestarts == 1
\* lines of the log file handed to a replay pass
MaxLines == 2
\* producers beyond the queue capacity in the backpressure specification
ExtraProducers == 2
\* I/O failures the environment causes in a run
MaxFaults == 1

\* ------------------------------------------------------- program constants

\* make(chan Event, 16)
QueueCap == 16
\* make(chan error, 1)
ErrCap == 1

EventDelete == 1
EventPut == 2

\* the zero value of Event, also what a receive from a closed channel yields
ZeroEvent == [Sequence |-> 0, EventType |-> 0, Key |-> << >>, Value |-> << >>]

\* ------------------------------------------------------------------- text

Digit == <<"0", "1", "2", "3", "4", "5", "6", "7", "8", "9">>

\* %d of fmt.Fprintf: the decimal numeral of n
RECURSIVE Itoa(_)
Itoa(n) == IF n < 10 THEN Digit[n + 1] ELSE Itoa(n \div 10) \o Digit[(n % 10) + 1]

\* the largest number that is written or read in any run
MaxNum == QueueCap + ExtraProducers + MaxCalls + MaxLines + 4

\* %d of fmt.Sscanf: the number a token is the numeral of, -1 when it is none
Atoi(s) == IF \E n \in 0..MaxNum : Itoa(n) = s
           THEN CHOOSE n \in 0..MaxNum : Itoa(n) = s
           ELSE -1

\* fmt.Fprintf(ftl.file, "%d\t%d\t%s\t%s\n", ...): the tokens of the line written
FormatLineDropsValue(seq, e) == <<Itoa(seq), Itoa(e.EventType)>> \o e.Key
FormatLine(seq, e) == <<Itoa(seq), Itoa(e.EventType)>> \o e.Key \o e.Value

\* fmt.Sscanf(line, "%d\t%d\t%s\t%s", ...): every verb skips white space and
\* reads one token; a missing token is "unexpected EOF", a token that is no
\* numeral under %d is an error, tokens after the fourth are not looked at
ParseOK(line) ==
    /\ Len(line) >= 4
    /\ Atoi(line[1]) >= 0
    /\ Atoi(line[2]) >= 0
    /\ Atoi(line[2]) <= 255

ParseLine(line) == [Sequence  |-> Atoi(line[1]),
                    EventType |-> Atoi(line[2]),
                    Key       |-> <<line[3]>>,
                    Value     |-> <<line[4]>>]

\* ------------------------------------------------------------------ store

\* the store collaborator: a map from key to value (store.m)
EmptyStore == [k \in {} |-> << >>]

\* a store whose Put does not replace the value of a key it already holds
PutKeepsFirst(m, k, v) == [x \in DOMAIN m \cup {k} |-> IF x \in DOMAIN m THEN m[x] ELSE v]

Put(m, k, v) == [x \in DOMAIN m \cup {k} |-> IF x = k THEN v ELSE m[x]]

Delete(m, k) == [x \in DOMAIN m \ {k} |-> m[x]]

ErrNoSuchKey == "no such key"

\* Get: the value of the key and no error, or ErrNoSuchKey for a key the map
\* does not hold
Get(m, k) ==
    IF k \in DOMAIN m THEN [value |-> m[k], err |-> "nil"]
    ELSE [value |-> << >>, err |-> ErrNoSuchKey]

\* the switch on e.EventType of the committers and of the recovery driver:
\* an event that is neither a DELETE nor a PUT changes nothing
ApplyEvent(m, e) ==
    IF e.EventType = EventDelete THEN Delete(m, e.Key)
    ELSE IF e.EventType = EventPut THEN Put(m, e.Key, e.Value)
    ELSE m

\* ------------------------------------------------------------------ state

VARIABLES
    backend,       \* "file" or "postgres": which TransactionLogger is constructed
    file,          \* the lines of transaction.log
    table,         \* the rows of the table transactions, in sequence order
    serial,        \* the last value of the SERIAL column's sequence
    lastSequence,  \* ftl.lastSequence
    store,         \* the in-memory store
    events,        \* the events channel made by Run: the queued events
    blocked,       \* the WritePut/WriteDelete calls waiting to send
    errors,        \* the errors channel made by Run
    cpc,           \* the committer goroutine: "none", "recv", "apply", "errsend", "halted"
    ce,            \* the event the committer holds
    rpc,           \* the replay goroutine: "query", "scan", "send", "closeErr", "closeEvt", "done"
    rpos,          \* the lines (rows) the scanner has consumed
    re,            \* the event the replay goroutine is sending on outEvent
    outError,      \* the buffer of the replay error channel
    errClosed,     \* close(outError) has run
    evtClosed,     \* close(outEvent) has run
    dpc,           \* initializeTransactionLog and main: "loop", "run", "live", "panic"
    err,           \* err of initializeTransactionLog
    count,         \* count of initializeTransactionLog
    calls,         \* WritePut/WriteDelete calls made so far; a call is named by its number
    callLimit,     \* calls the handlers make in this run
    faults,        \* I/O failures the environment may still cause
    restarts,      \* process restarts so far
    enq,           \* history: the calls in the order their send completed
    persisted,     \* history: the calls whose event was written, in write order
    applied,       \* history: the calls whose event the committer applied to the store
    recorded,      \* history: the sequences the committer wrote since Run
    delivered,     \* history: the events received from outEvent in this process
    emitted,       \* history: the errors the replay goroutine sent in this process
    readFailed,    \* history: the replay pass met an I/O failure
    prev,          \* history: the store and queue of the process before the restart
    responded,     \* the calls whose handler has written its response, with the status
    parked,        \* the calls that sent on the nil channel of a logger not yet run
    ops            \* history: the operations applied to the store by direct calls

durable == <<backend, file, table, serial>>
queue   == <<events, blocked, calls, enq>>
commit  == <<errors, cpc, ce, persisted, applied, recorded>>
replay  == <<rpc, rpos, re, outError, errClosed, evtClosed, emitted, readFailed>>
driver  == <<dpc, err, count, delivered>>
env     == <<callLimit, restarts, prev>>
callers == <<responded, parked, ops>>

vars == <<durable, lastSequence, store, queue, commit, replay, driver, env, faults,
          callers>>

Nil == "nil"

Keys == {<<"a">>, <<"b">>}
Values == {<<"1">>, <<"2">>}

NoCall == [id |-> 0, e |-> ZeroEvent]

\* ------------------------------------------------- ReadEvents: the replay pass

\* a replay that sends the error and goes on with the next record
EmitWithoutReturn(e) ==
    /\ Len(outError) < ErrCap
    /\ outError' = Append(outError, e)
    /\ emitted' = Append(emitted, e)
    /\ rpc' = "scan"

\* outError <- err, then return: the deferred closes follow
Emit(e) ==
    /\ Len(outError) < ErrCap
    /\ outError' = Append(outError, e)
    /\ emitted' = Append(emitted, e)
    /\ rpc' = "closeErr"

\* the sanity check of the file replay: ftl.lastSequence >= e.Sequence
OutOfSequenceAllowsRepeat(last, seq) == last > seq
OutOfSequence(last, seq) == last >= seq

\* one pass of the scanner loop of FileTransactionLogger.ReadEvents
FileScan ==
    /\ backend = "file"
    /\ rpc = "scan"
    /\ \/ \* scanner.Scan() fails: scanner.Err() is not nil
          /\ faults > 0
          /\ faults' = faults - 1
          /\ Emit("read")
          /\ readFailed' = TRUE
          /\ UNCHANGED <<rpos, re, lastSequence>>
       \/ \* end of file
          /\ rpos = Len(file)
          /\ rpc' = "closeErr"
          /\ UNCHANGED <<rpos, re, lastSequence, outError, emitted, readFailed, faults>>
       \/ /\ rpos < Len(file)
          /\ rpos' = rpos + 1
          /\ LET line == file[rpos + 1] IN
               IF ~ParseOK(line)
               THEN Emit("parse") /\ UNCHANGED <<re, lastSequence>>
               ELSE IF OutOfSequence(lastSequence, ParseLine(line).Sequence)
               THEN Emit("sequence") /\ UNCHANGED <<re, lastSequence>>
               ELSE /\ lastSequence' = ParseLine(line).Sequence
                    /\ re' = ParseLine(line)
                    /\ rpc' = "send"
                    /\ UNCHANGED <<outError, emitted>>
          /\ UNCHANGED <<readFailed, faults>>
    /\ UNCHANGED <<durable, store, queue, commit, errClosed, evtClosed, driver, env>>
    /\ UNCHANGED callers

\* ptl.db.Query of PostgresTransactionLogger.ReadEvents
PgQuery ==
    /\ backend = "postgres"
    /\ rpc = "query"
    /\ \/ /\ faults > 0
          /\ faults' = faults - 1
          /\ Emit("query")
          /\ readFailed' = TRUE
       \/ /\ rpc' = "scan"
          /\ UNCHANGED <<outError, emitted, readFailed, faults>>
    /\ UNCHANGED <<durable, lastSequence, store, queue, commit, rpos, re, errClosed,
                   evtClosed, driver, env>>
    /\ UNCHANGED callers

\* one pass of the rows loop of PostgresTransactionLogger.ReadEvents
PgScan ==
    /\ backend = "postgres"
    /\ rpc = "scan"
    /\ \/ \* rows.Scan or rows.Err fails
          /\ faults > 0
          /\ faults' = faults - 1
          /\ Emit(IF rpos < Len(table) THEN "row" ELSE "read")
          /\ readFailed' = TRUE
          /\ UNCHANGED <<rpos, re>>
       \/ /\ rpos = Len(table)
          /\ rpc' = "closeErr"
          /\ UNCHANGED <<rpos, re, outError, emitted, readFailed, faults>>
       \/ /\ rpos < Len(table)
          /\ rpos' = rpos + 1
          /\ re' = table[rpos + 1]
          /\ rpc' = "send"
          /\ UNCHANGED <<outError, emitted, readFailed, faults>>
    /\ UNCHANGED <<durable, lastSequence, store, queue, commit, errClosed, evtClosed,
                   driver, env>>
    /\ UNCHANGED callers

\* defer close(outError): the first of the two deferred closes to run
ReplayCloseErr ==
    /\ rpc = "closeErr"
    /\ errClosed' = TRUE
    /\ rpc' = "closeEvt"
    /\ UNCHANGED <<durable, lastSequence, store, queue, commit, rpos, re, outError,
                   evtClosed, emitted, readFailed, driver, env, faults>>
    /\ UNCHANGED callers

\* defer close(outEvent)
ReplayCloseEvt ==
    /\ rpc = "closeEvt"
    /\ evtClosed' = TRUE
    /\ rpc' = "done"
    /\ UNCHANGED <<durable, lastSequence, store, queue, commit, rpos, re, outError,
                   errClosed, emitted, readFailed, driver, env, faults>>
    /\ UNCHANGED callers

\* ------------------------------------- initializeTransactionLog: the driver

\* a driver that counts every receive
CountsEveryReceive(e) == 1

\* count++ happens in the DELETE and the PUT case only
Counted(e) == IF e.EventType \in {EventDelete, EventPut} THEN 1 ELSE 0

\* case e, ok = <-events, the replay goroutine being at its send; err is
\* assigned the store's result, which is nil
DriverRecvEvent ==
    /\ dpc = "loop"
    /\ rpc = "send"
    /\ store' = ApplyEvent(store, re)
    /\ count' = count + Counted(re)
    /\ delivered' = Append(delivered, re)
    /\ rpc' = "scan"
    /\ UNCHANGED <<durable, lastSequence, queue, commit, rpos, re, outError, errClosed,
                   evtClosed, emitted, readFailed, dpc, err, env, faults>>
    /\ UNCHANGED callers

\* case e, ok = <-events, outEvent being closed: the zero Event and ok = false
DriverRecvClosed ==
    /\ dpc = "loop"
    /\ evtClosed
    /\ store' = ApplyEvent(store, ZeroEvent)
    /\ count' = count + Counted(ZeroEvent)
    /\ dpc' = "run"
    /\ UNCHANGED <<durable, lastSequence, queue, commit, replay, err, delivered, env, faults>>
    /\ UNCHANGED callers

\* case err, ok = <-errors: the buffered error, or nil and ok = false once closed
DriverRecvErr ==
    /\ dpc = "loop"
    /\ \/ /\ outError # << >>
          /\ err' = Head(outError)
          /\ outError' = Tail(outError)
       \/ /\ outError = << >>
          /\ errClosed
          /\ err' = Nil
          /\ UNCHANGED outError
    /\ dpc' = "run"
    /\ UNCHANGED <<durable, lastSequence, store, queue, commit, rpc, rpos, re, errClosed,
                   evtClosed, emitted, readFailed, count, delivered, env, faults>>
    /\ UNCHANGED callers

\* what main does with the error initializeTransactionLog returns
AfterInit(e) == IF e = Nil THEN "live" ELSE "panic"

\* a driver that may call Run while the replay loop is still going
DriverRunDuringReplay ==
    /\ dpc \in {"loop", "run"}
    /\ events' = << >>
    /\ errors' = << >>
    /\ cpc' = "recv"
    /\ recorded' = << >>
    /\ dpc' = AfterInit(err)
    /\ UNCHANGED <<durable, lastSequence, store, blocked, calls, enq, ce, persisted,
                   applied, replay, err, count, delivered, env, faults>>
    /\ UNCHANGED callers

\* transactionLogger.Run() and return err: Run makes the two channels and
\* starts the committer
DriverRun ==
    /\ dpc = "run"
    /\ events' = << >>
    /\ errors' = << >>
    /\ cpc' = "recv"
    /\ recorded' = << >>
    /\ dpc' = AfterInit(err)
    /\ UNCHANGED <<durable, lastSequence, store, blocked, calls, enq, ce, persisted,
                   applied, replay, err, count, delivered, env, faults>>
    /\ UNCHANGED callers

\* ----------------------------------------------- WritePut and WriteDelete

\* ftl.events <- Event{...}: the send completes when the channel has room and
\* waits otherwise
SendDropsWhenFull(ev) ==
    /\ dpc = "live"
    /\ calls < callLimit
    /\ calls' = calls + 1
    /\ IF Len(events) < QueueCap
       THEN /\ events' = Append(events, [id |-> calls + 1, e |-> ev])
            /\ enq' = Append(enq, calls + 1)
       ELSE UNCHANGED <<events, enq>>
    /\ UNCHANGED blocked
    /\ UNCHANGED <<durable, lastSequence, store, commit, replay, driver, env, faults>>
    /\ UNCHANGED callers
Send(ev) ==
    /\ dpc = "live"
    /\ calls < callLimit
    /\ calls' = calls + 1
    /\ IF Len(events) < QueueCap
       THEN /\ events' = Append(events, [id |-> calls + 1, e |-> ev])
            /\ enq' = Append(enq, calls + 1)
            /\ UNCHANGED blocked
       ELSE /\ blocked' = blocked \cup {[id |-> calls + 1, e |-> ev]}
            /\ UNCHANGED <<events, enq>>
    /\ UNCHANGED <<durable, lastSequence, store, commit, replay, driver, env, faults>>
    /\ UNCHANGED callers

\* a send before Run that waits for the channel Run makes
SendNilWaitsForRun(ev) ==
    /\ cpc = "none"
    /\ calls < callLimit
    /\ calls' = calls + 1
    /\ blocked' = blocked \cup {[id |-> calls + 1, e |-> ev]}
    /\ UNCHANGED <<durable, lastSequence, store, events, enq, commit, replay, driver, env,
                   faults>>
    /\ UNCHANGED callers

\* ftl.events <- Event{...} on a logger whose Run has not been called: the
\* field is the nil channel, and a send on the nil channel waits for ever
SendNil(ev) ==
    /\ cpc = "none"
    /\ calls < callLimit
    /\ calls' = calls + 1
    /\ parked' = parked \cup {[id |-> calls + 1, e |-> ev]}
    /\ UNCHANGED <<durable, lastSequence, store, events, blocked, enq, commit, replay,
                   driver, env, faults, responded, ops>>

WritePut(k, v) == Send([ZeroEvent EXCEPT !.EventType = EventPut, !.Key = k, !.Value = v])

WriteDelete(k) == Send([ZeroEvent EXCEPT !.EventType = EventDelete, !.Key = k])

\* a waiting send that completes whether or not the channel has room
UnblockIgnoresCapacity(c) ==
    /\ c \in blocked
    /\ events' = Append(events, c)
    /\ enq' = Append(enq, c.id)
    /\ blocked' = blocked \ {c}
    /\ UNCHANGED <<durable, lastSequence, store, calls, commit, replay, driver, env, faults>>
    /\ UNCHANGED callers

\* a waiting send completes once the channel has room
Unblock(c) ==
    /\ c \in blocked
    /\ Len(events) < QueueCap
    /\ events' = Append(events, c)
    /\ enq' = Append(enq, c.id)
    /\ blocked' = blocked \ {c}
    /\ UNCHANGED <<durable, lastSequence, store, calls, commit, replay, driver, env, faults>>
    /\ UNCHANGED callers

\* ---------------------------------------------------------- the handlers

Range(f) == {f[i] : i \in DOMAIN f}
Answered == {r.id : r \in responded}

\* a handler that answers only once the event has been written
HandlerRespondAfterWrite(id) ==
    /\ id \in Range(enq)
    /\ id \notin Answered
    /\ id \in {p.id : p \in Range(persisted)}
    /\ responded' = responded \cup {[id |-> id, status |-> "success", queued |-> FALSE]}
    /\ UNCHANGED <<durable, lastSequence, store, queue, commit, replay, driver, env, faults,
                   parked, ops>>

\* keyValuePutHandler and keyValueDeleteHandler after WritePut or WriteDelete
\* has returned: w.WriteHeader(http.StatusCreated), or w.Write of the success
\* text; `queued` records whether the event was still in the queue then
HandlerRespond(id) ==
    /\ id \in Range(enq)
    /\ id \notin Answered
    /\ responded' = responded \cup
           {[id |-> id, status |-> "success",
             queued |-> \E i \in DOMAIN events : events[i].id = id]}
    /\ UNCHANGED <<durable, lastSequence, store, queue, commit, replay, driver, env, faults,
                   parked, ops>>

\* -------------------------------------------------------- the committers

\* ftl.lastSequence++
NextSequenceStuck(n) == n
NextSequence(n) == n + 1

\* for e := range events: the receive takes the oldest event of the channel
DequeueNewest(q) == [head |-> q[Len(q)], rest |-> SubSeq(q, 1, Len(q) - 1)]
DequeueSkips(q) == [head |-> Head(q), rest |-> IF Len(q) > 1 THEN Tail(Tail(q)) ELSE Tail(q)]
Dequeue(q) == [head |-> Head(q), rest |-> Tail(q)]

\* a committer that goes back to the queue after a failed append
AfterWriteErrorContinues == "recv"

\* the return after `errors <- err` in the file committer: the goroutine ends
AfterWriteError == "halted"

\* the committer of FileTransactionLogger.Run up to the error check: take an
\* event, count, write the line; on a failed write send the error and return
FileCommit ==
    /\ backend = "file"
    /\ cpc = "recv"
    /\ events # << >>
    /\ events' = Dequeue(events).rest
    /\ lastSequence' = NextSequence(lastSequence)
    /\ ce' = Dequeue(events).head
    /\ \/ /\ file' = Append(file, FormatLine(lastSequence', Dequeue(events).head.e))
          /\ persisted' = Append(persisted, Dequeue(events).head)
          /\ recorded' = Append(recorded, lastSequence')
          /\ cpc' = "apply"
          /\ UNCHANGED <<errors, faults>>
       \/ /\ faults > 0
          /\ faults' = faults - 1
          /\ Len(errors) < ErrCap
          /\ errors' = Append(errors, "write")
          /\ cpc' = AfterWriteError
          /\ UNCHANGED <<file, persisted, recorded>>
    /\ UNCHANGED <<backend, table, serial, store, blocked, calls, enq, applied, replay,
                   driver, env>>
    /\ UNCHANGED callers

\* the switch of the file committer: Delete(e.Key) or Put(e.Key, e.Value)
FileApply ==
    /\ backend = "file"
    /\ cpc = "apply"
    /\ store' = ApplyEvent(store, ce.e)
    /\ applied' = Append(applied, ce.id)
    /\ cpc' = "recv"
    /\ UNCHANGED <<durable, lastSequence, queue, errors, ce, persisted, recorded, replay,
                   driver, env, faults>>
    /\ UNCHANGED callers

\* a committer that ends on a failed insert, as the file committer does
AfterInsertErrorHalts == "halted"

\* the Postgres committer after a failed insert: it goes on to `errors <- err`,
\* with no return
AfterInsertError == "errsend"

\* the committer of PostgresTransactionLogger.Run up to the error check: take
\* an event and insert it; the engine assigns the sequence, and a failed
\* insert may or may not have drawn a value of it
PgCommit ==
    /\ backend = "postgres"
    /\ cpc = "recv"
    /\ events # << >>
    /\ events' = Dequeue(events).rest
    /\ ce' = Dequeue(events).head
    /\ \/ /\ serial' = serial + 1
          /\ table' = Append(table, [Dequeue(events).head.e EXCEPT !.Sequence = serial + 1])
          /\ persisted' = Append(persisted, Dequeue(events).head)
          /\ cpc' = "apply"
          /\ UNCHANGED faults
       \/ /\ faults > 0
          /\ faults' = faults - 1
          /\ cpc' = AfterInsertError
          /\ serial' \in {serial, serial + 1}
          /\ UNCHANGED <<table, persisted>>
    /\ UNCHANGED <<backend, file, lastSequence, store, blocked, calls, enq, errors,
                   applied, recorded, replay, driver, env>>
    /\ UNCHANGED callers

\* errors <- err of the Postgres committer, which then goes on to the switch
PgErrSend ==
    /\ cpc = "errsend"
    /\ Len(errors) < ErrCap
    /\ errors' = Append(errors, "insert")
    /\ cpc' = "apply"
    /\ UNCHANGED <<durable, lastSequence, store, queue, ce, persisted, applied, recorded,
                   replay, driver, env, faults>>
    /\ UNCHANGED callers

\* the switch of the Postgres committer
PgApply ==
    /\ backend = "postgres"
    /\ cpc = "apply"
    /\ store' = ApplyEvent(store, ce.e)
    /\ applied' = Append(applied, ce.id)
    /\ cpc' = "recv"
    /\ UNCHANGED <<durable, lastSequence, queue, errors, ce, persisted, recorded, replay,
                   driver, env, faults>>
    /\ UNCHANGED callers

\* a receive from the channel Err() returns
ReadErr ==
    /\ errors # << >>
    /\ errors' = Tail(errors)
    /\ UNCHANGED <<durable, lastSequence, store, queue, cpc, ce, persisted, applied,
                   recorded, replay, driver, env, faults>>
    /\ UNCHANGED callers

\* ------------------------------------------------------------ the process

\* the replay goroutine's first step in a new process
ReplayStart(b) == IF b = "postgres" THEN "query" ELSE "scan"

\* every call made has been written and applied and none is queued or waiting
Drained ==
    /\ events = << >>
    /\ blocked = {}
    /\ cpc = "recv"
    /\ Len(persisted) = calls

\* the process ends and a new one starts on the same log: NewTransactionLogger
\* and ReadEvents of initializeTransactionLog
Restart ==
    /\ dpc \in {"live", "panic"}
    /\ restarts < MaxRestarts
    /\ restarts' = restarts + 1
    /\ prev' = [store |-> store, calls |-> calls, drained |-> Drained /\ restarts = 0]
    /\ lastSequence' = 0
    /\ store' = EmptyStore
    /\ events' = << >>
    /\ blocked' = {}
    /\ errors' = << >>
    /\ cpc' = "none"
    /\ ce' = NoCall
    /\ recorded' = << >>
    /\ rpc' = ReplayStart(backend)
    /\ rpos' = 0
    /\ re' = ZeroEvent
    /\ outError' = << >>
    /\ errClosed' = FALSE
    /\ evtClosed' = FALSE
    /\ emitted' = << >>
    /\ readFailed' = FALSE
    /\ dpc' = "loop"
    /\ err' = Nil
    /\ count' = 0
    /\ delivered' = << >>
    /\ parked' = {}
    /\ ops' = << >>
    /\ UNCHANGED <<durable, calls, enq, persisted, applied, callLimit, faults, responded>>

\* a process that has constructed its logger and called ReadEvents
NewProcess ==
    /\ lastSequence = 0
    /\ store = EmptyStore
    /\ events = << >>
    /\ blocked = {}
    /\ errors = << >>
    /\ cpc = "none"
    /\ ce = NoCall
    /\ recorded = << >>
    /\ rpc = ReplayStart(backend)
    /\ rpos = 0
    /\ re = ZeroEvent
    /\ outError = << >>
    /\ errClosed = FALSE
    /\ evtClosed = FALSE
    /\ emitted = << >>
    /\ readFailed = FALSE
    /\ dpc = "loop"
    /\ err = Nil
    /\ count = 0
    /\ delivered = << >>
    /\ calls = 0
    /\ enq = << >>
    /\ persisted = << >>
    /\ applied = << >>
    /\ restarts = 0
    /\ prev = [store |-> EmptyStore, calls |-> 0, drained |-> FALSE]
    /\ responded = {}
    /\ parked = {}
    /\ ops = << >>

\* ---------------------------------------------------- main specification
\* a fresh log; recovery, live writes, restarts

Init ==
    /\ backend \in {"file", "postgres"}
    /\ file = << >>
    /\ table = << >>
    /\ serial = 0
    /\ NewProcess
    /\ callLimit = MaxCalls
    /\ faults = MaxFaults

Next ==
    \/ FileScan
    \/ PgQuery
    \/ PgScan
    \/ ReplayCloseErr
    \/ ReplayCloseEvt
    \/ DriverRecvEvent
    \/ DriverRecvClosed
    \/ DriverRecvErr
    \/ DriverRun
    \/ \E k \in Keys, v \in Values : WritePut(k, v)
    \/ \E k \in Keys : WriteDelete(k)
    \/ FileCommit
    \/ FileApply
    \/ PgCommit
    \/ PgErrSend
    \/ PgApply
    \/ ReadErr
    \/ Restart

Spec == Init /\ [][Next]_vars

\* --------------------------------------------------- replay specification
\* a process starts on a log of any content: the replay pass and the driver

\* lines as the committer writes them, and lines it never writes
Lines == { <<"1", "2", "a", "1">>,       \* 1 PUT a 1
           <<"2", "2", "b", "2">>,       \* 2 PUT b 2
           <<"2", "1", "a">>,            \* 2 DELETE a, the value empty
           <<"0", "2", "a", "1">>,       \* sequence 0
           <<"x", "2", "a", "1">>,       \* the sequence no number
           <<"3", "0", "a", "1">>,       \* event type 0
           <<"3", "2", "a", "x", "y">>,  \* 3 PUT a "x y"
           << >> }                       \* an empty line

Rows == { [Sequence |-> 1, EventType |-> EventPut, Key |-> <<"a">>, Value |-> <<"1">>],
          [Sequence |-> 2, EventType |-> EventDelete, Key |-> <<"a">>, Value |-> << >>],
          [Sequence |-> 3, EventType |-> EventPut, Key |-> <<"b">>, Value |-> <<"2">>] }

SeqsUpTo(S, n) == UNION {[1..k -> S] : k \in 0..n}

\* what ORDER BY sequence returns of a table whose primary key is the sequence
Ordered(t) == \A i, j \in DOMAIN t : i < j => t[i].Sequence < t[j].Sequence

InitReplay ==
    /\ backend \in {"file", "postgres"}
    /\ file \in SeqsUpTo(Lines, MaxLines)
    /\ table \in {t \in SeqsUpTo(Rows, MaxLines) : Ordered(t)}
    /\ backend = "file" => table = << >>
    /\ backend = "postgres" => file = << >>
    /\ serial = 3
    /\ NewProcess
    /\ callLimit = 0
    /\ faults = MaxFaults

NextReplay ==
    \/ FileScan
    \/ PgQuery
    \/ PgScan
    \/ ReplayCloseErr
    \/ ReplayCloseEvt
    \/ DriverRecvEvent
    \/ DriverRecvClosed
    \/ DriverRecvErr
    \/ DriverRun

SpecReplay == InitReplay /\ [][NextReplay]_vars

\* the scheduler runs the replay goroutine whenever it can take a step, and
\* the driver's loop takes the event the goroutine offers
FairReplay ==
    /\ WF_vars(FileScan)
    /\ WF_vars(PgQuery)
    /\ WF_vars(PgScan)
    /\ WF_vars(ReplayCloseErr)
    /\ WF_vars(ReplayCloseEvt)
    /\ WF_vars(DriverRecvEvent)

FairSpecReplay == SpecReplay /\ FairReplay

\* --------------------------------------------- backpressure specification
\* a live logger on a fresh log and more producers than the queue holds

BPKey == <<"a">>
BPValue == <<"1">>

\* a running logger with an empty log, serving at most n calls, f of whose
\* durable writes may fail
InitLive(n, f) ==
    /\ backend \in {"file", "postgres"}
    /\ file = << >>
    /\ table = << >>
    /\ serial = 0
    /\ lastSequence = 0
    /\ store = EmptyStore
    /\ events = << >>
    /\ blocked = {}
    /\ errors = << >>
    /\ cpc = "recv"
    /\ ce = NoCall
    /\ recorded = << >>
    /\ rpc = "done"
    /\ rpos = 0
    /\ re = ZeroEvent
    /\ outError = << >>
    /\ errClosed = TRUE
    /\ evtClosed = TRUE
    /\ emitted = << >>
    /\ readFailed = FALSE
    /\ dpc = "live"
    /\ err = Nil
    /\ count = 0
    /\ delivered = << >>
    /\ calls = 0
    /\ enq = << >>
    /\ persisted = << >>
    /\ applied = << >>
    /\ restarts = 0
    /\ prev = [store |-> EmptyStore, calls |-> 0, drained |-> FALSE]
    /\ responded = {}
    /\ parked = {}
    /\ ops = << >>
    /\ callLimit = n
    /\ faults = f

InitBPWith(f) == InitLive(QueueCap + ExtraProducers, f)

InitBP == InitBPWith(MaxFaults)

NextBP ==
    \/ WritePut(BPKey, BPValue)
    \/ \E c \in blocked : Unblock(c)
    \/ FileCommit
    \/ FileApply
    \/ PgCommit
    \/ PgErrSend
    \/ PgApply
    \/ ReadErr

SpecBP == InitBP /\ [][NextBP]_vars

\* the same with an environment that causes no durable-write failure
InitBPNoFault == InitBPWith(0)

NextBPNoFault ==
    \/ WritePut(BPKey, BPValue)
    \/ \E c \in blocked : Unblock(c)
    \/ FileCommit
    \/ FileApply
    \/ PgCommit
    \/ PgApply

\* the scheduler runs every goroutine that can take a step: the committer, and
\* a producer whose send can complete
FairBP ==
    /\ WF_vars(FileCommit)
    /\ WF_vars(FileApply)
    /\ WF_vars(PgCommit)
    /\ WF_vars(PgApply)
    /\ WF_vars(\E c \in blocked : Unblock(c))

FairSpecBP == InitBPNoFault /\ [][NextBPNoFault]_vars /\ FairBP

\* the Postgres logger with more than one insert failing: the committer runs
\* whenever it can, and nothing in the program reads the channel Err() returns,
\* so a reader of it may or may not come
PgCalls == MaxCalls + 1
PgFaults == MaxFaults + 1

InitPg == InitLive(PgCalls, PgFaults) /\ backend = "postgres"

NextPg ==
    \/ WritePut(BPKey, BPValue)
    \/ WriteDelete(BPKey)
    \/ PgCommit
    \/ PgErrSend
    \/ PgApply
    \/ ReadErr

FairPg ==
    /\ WF_vars(PgCommit)
    /\ WF_vars(PgErrSend)
    /\ WF_vars(PgApply)

FairSpecPg == InitPg /\ [][NextPg]_vars /\ FairPg

\* the server once live: handlers that enqueue and answer, and the committer
InitServe == InitLive(MaxCalls, MaxFaults)

NextServe ==
    \/ WritePut(BPKey, BPValue)
    \/ WriteDelete(BPKey)
    \/ \E id \in 1..MaxCalls : HandlerRespond(id)
    \/ FileCommit
    \/ FileApply
    \/ PgCommit
    \/ PgErrSend
    \/ PgApply
    \/ ReadErr

SpecServe == InitServe /\ [][NextServe]_vars

\* the store called directly, as the handlers without a transaction log do
MaxOps == 4

StorePut(k, v) ==
    /\ Len(ops) < MaxOps
    /\ store' = Put(store, k, v)
    /\ ops' = Append(ops, [op |-> "put", key |-> k, value |-> v])
    /\ UNCHANGED <<durable, lastSequence, queue, commit, replay, driver, env, faults,
                   responded, parked>>

StoreDelete(k) ==
    /\ Len(ops) < MaxOps
    /\ store' = Delete(store, k)
    /\ ops' = Append(ops, [op |-> "delete", key |-> k, value |-> << >>])
    /\ UNCHANGED <<durable, lastSequence, queue, commit, replay, driver, env, faults,
                   responded, parked>>

InitStore == InitLive(0, 0) /\ backend = "file"

NextStore ==
    \/ \E k \in Keys, v \in Values : StorePut(k, v)
    \/ \E k \in Keys : StoreDelete(k)

SpecStore == InitStore /\ [][NextStore]_vars

\* the file logger with callers that do not wait for Run: over any log,
\* WritePut and WriteDelete may be called before Run as well as after it
InitLogger ==
    /\ backend = "file"
    /\ file \in SeqsUpTo(Lines, MaxLines)
    /\ table = << >>
    /\ serial = 0
    /\ NewProcess
    /\ callLimit = MaxCalls
    /\ faults = 0

NextLogger ==
    \/ FileScan
    \/ ReplayCloseErr
    \/ ReplayCloseEvt
    \/ DriverRecvEvent
    \/ DriverRecvClosed
    \/ DriverRecvErr
    \/ DriverRun
    \/ SendNil([ZeroEvent EXCEPT !.EventType = EventPut, !.Key = BPKey, !.Value = BPValue])
    \/ SendNil([ZeroEvent EXCEPT !.EventType = EventDelete, !.Key = BPKey])
    \/ WritePut(BPKey, BPValue)
    \/ WriteDelete(BPKey)
    \/ FileCommit
    \/ FileApply

SpecLogger == InitLogger /\ [][NextLogger]_vars

\* ----------------------------------------------------------------- claims

Ids(s) == {s[i].id : i \in DOMAIN s}
Pos(s, x) == CHOOSE i \in DOMAIN s : s[i] = x
Tuple(e) == <<e.EventType, e.Key, e.Value>>

\* C1: the committer persists events in the order their sends completed: every
\* persisted event was enqueued, and of two persisted events the one enqueued
\* first is persisted first (both backends, producers waiting on a full queue
\* included).
C1_PersistInEnqueueOrder ==
    /\ \A i \in DOMAIN persisted : \E k \in DOMAIN enq : enq[k] = persisted[i].id
    /\ \A i, j \in DOMAIN persisted :
         i < j => Pos(enq, persisted[i].id) < Pos(enq, persisted[j].id)

\* C1 witness: two events are persisted in the order of their enqueues although
\* the calls were made in the other order (the later caller's send completed
\* first).
C1_Witness ==
    \E i, j \in DOMAIN persisted : i < j /\ persisted[i].id > persisted[j].id

\* the sequence numbers of the lines the committer appended since Run
RecordedInFile ==
    [i \in 1..Len(recorded) |-> Atoi(file[Len(file) - Len(recorded) + i][1])]

\* C2: file backend: the sequence numbers of the lines the committer appends
\* after Run are strictly increasing, so none repeats.
C2_SequencesIncrease ==
    backend = "file" =>
        /\ Len(recorded) <= Len(file)
        /\ RecordedInFile = recorded
        /\ \A i, j \in 1..Len(recorded) : i < j => RecordedInFile[i] < RecordedInFile[j]

\* C2 witness: the committer has appended two lines since Run.
C2_Witness == backend = "file" /\ Len(recorded) >= 2

\* C3: file backend round trip: once a later replay pass over the file has
\* finished (no I/O failure), the events it delivered are, in order, the
\* (eventType, key, value) tuples of the events the committer persisted, and
\* it emitted no error.
C3_RoundTrip ==
    (backend = "file" /\ restarts >= 1 /\ rpc = "done" /\ ~readFailed) =>
        /\ emitted = << >>
        /\ [i \in DOMAIN delivered |-> Tuple(delivered[i])]
             = [i \in DOMAIN persisted |-> Tuple(persisted[i].e)]

\* C4: file backend recovery: when the first process started on an empty log,
\* drained every put and delete, and was restarted, initializeTransactionLog
\* of the new process returns no error and leaves the store equal to the store
\* of the first process (no I/O failure, no new write yet).
C4_RecoveryRebuildsStore ==
    (/\ backend = "file"
     /\ restarts = 1
     /\ prev.drained
     /\ calls = prev.calls
     /\ dpc \in {"live", "panic"}
     /\ ~readFailed) =>
        /\ err = Nil
        /\ store = prev.store

\* C5: write-ahead, both backends: every event the committer has applied to
\* the store has been persisted.
C5_AppliedOnlyAfterPersisted ==
    \A i \in DOMAIN applied : applied[i] \in Ids(persisted)

\* a record is accepted when it parses and its sequence is above the floor
RECURSIVE AcceptedLen(_, _, _)
AcceptedLen(f, i, floor) ==
    IF i > Len(f) THEN Len(f)
    ELSE IF ParseOK(f[i]) /\ Atoi(f[i][1]) > floor
         THEN AcceptedLen(f, i + 1, Atoi(f[i][1]))
         ELSE i - 1

\* the longest prefix of records that parse and whose sequences are strictly
\* increasing
IncreasingPrefixLen(f) ==
    IF f = << >> \/ ~ParseOK(f[1]) THEN 0 ELSE AcceptedLen(f, 2, Atoi(f[1][1]))

\* the longest prefix of records that parse and whose sequences are strictly
\* increasing from above 0
AcceptedPrefixLen(f) == AcceptedLen(f, 1, 0)

ReplayDelivers(n) ==
    /\ backend = "file"
    /\ Len(delivered) <= n
    /\ \A i \in DOMAIN delivered : delivered[i] = ParseLine(file[i])
    /\ Len(emitted) <= 1
    /\ (rpc = "done" /\ ~readFailed) =>
          /\ Len(delivered) = n
          /\ Len(emitted) = (IF n < Len(file) THEN 1 ELSE 0)

\* C6 as stated: file replay delivers exactly the longest prefix of records
\* that parse and whose sequences are strictly increasing, and emits one error
\* at the first record that breaks this.
C6_AsStated == backend = "file" => ReplayDelivers(IncreasingPrefixLen(file))

\* C6 amended: file replay delivers exactly the longest prefix of records that
\* parse and whose sequences are strictly increasing starting above 0, the
\* value of lastSequence in a new logger: never more, each delivered event the
\* parse of its line, and when the pass ends without an I/O failure all of the
\* prefix, with one error emitted exactly when the prefix is not the whole file.
C6_ReplayDeliversAcceptedPrefix ==
    backend = "file" => ReplayDelivers(AcceptedPrefixLen(file))

\* C6 witness: the pass delivered a record, emitted an error at a later one
\* and ended.
C6_Witness ==
    /\ backend = "file"
    /\ rpc = "done"
    /\ ~readFailed
    /\ Len(delivered) >= 1
    /\ Len(emitted) = 1
    /\ Len(delivered) < Len(file)

\* C7: whenever the replay goroutine has emitted an error,
\* initializeTransactionLog returns a non-nil error and main panics.
C7_ReplayErrorIsFatal ==
    (emitted # << >> /\ dpc \in {"live", "panic"}) => (err # Nil /\ dpc = "panic")

\* C8: Run() has been invoked only if the driver loop ended without an error.
C8_RunOnlyAfterCleanReplay ==
    (restarts = 0 /\ cpc # "none") => err = Nil

\* C9: the queue never holds more than 16 events; a call made while it holds
\* fewer than 16 completes its send at once, a call made while it holds 16
\* waits and stays waiting while the queue is full; every call made is either
\* waiting or has been enqueued, none is dropped.
C9_Inv ==
    /\ Len(events) <= QueueCap
    /\ \A n \in 1..calls :
         (n \in {c.id : c \in blocked}) # (\E k \in DOMAIN enq : enq[k] = n)

C9_Step ==
    /\ calls' = calls + 1 =>
         IF Len(events) < QueueCap
         THEN enq' = Append(enq, calls') /\ blocked' = blocked
              /\ Len(events') = Len(events) + 1
         ELSE events' = events /\ (\E c \in blocked' : c.id = calls')
    /\ \A c \in blocked : Len(events) = QueueCap /\ Len(events') = QueueCap => c \in blocked'

C9_Backpressure == []C9_Inv /\ [][C9_Step]_vars

\* C9 witness: the queue holds 16 events and a call is waiting.
C9_Witness == Len(events) = QueueCap /\ blocked # {}

\* C10: under fair scheduling and with no durable-write failure every call
\* made, waiting ones included, is eventually persisted (again and again all
\* the calls made so far are persisted, so none stays behind for ever); and at
\* all times the persisted events hold no call twice and are in enqueue order.
C10_ExactlyOnce ==
    /\ \A i, j \in DOMAIN persisted : i # j => persisted[i].id # persisted[j].id
    /\ \A i, j \in DOMAIN persisted :
         i < j => Pos(enq, persisted[i].id) < Pos(enq, persisted[j].id)
    /\ Ids(persisted) \subseteq 1..calls

C10_NoLossUnderBackpressure ==
    /\ []C10_ExactlyOnce
    /\ []<>(blocked = {} /\ Ids(persisted) = 1..calls)

\* C10 witness: every producer's event is persisted and one of them had to wait
\* behind a later caller.
C10_Witness ==
    /\ calls = callLimit
    /\ Len(persisted) = calls
    /\ \E k \in DOMAIN enq : enq[k] # k


IsPrefix(s, t) == Len(s) <= Len(t) /\ SubSeq(t, 1, Len(s)) = s

C11_FailStep ==
    (backend = "file" /\ faults' < faults) =>
        /\ cpc' = "halted"
        /\ errors' = Append(errors, "write")
        /\ file' = file
        /\ persisted' = persisted

C11_HaltedStep ==
    (backend = "file" /\ cpc = "halted") =>
        /\ cpc' = "halted"
        /\ file' = file
        /\ persisted' = persisted
        /\ lastSequence' = lastSequence
        /\ IsPrefix(events, events')
        /\ Len(errors') <= Len(errors)

\* C11: on the file backend a failed append puts exactly one error on the
\* error feed and ends the committer; from then on no line is appended, no
\* event is taken from the queue and no further error is sent, whatever is
\* enqueued afterwards.
C11_FileFailFast == [][C11_FailStep /\ C11_HaltedStep]_vars

\* the committer has halted and calls made afterwards sit in the queue
C11_Witness ==
    /\ backend = "file"
    /\ cpc = "halted"
    /\ \E i \in DOMAIN events : events[i].id > ce.id


\* an event that is in the queue after an insert has failed leaves the queue
Serviced ==
    \A i \in 1..PgCalls :
        (i \in Ids(events) /\ faults < PgFaults) ~> (i \notin Ids(events))

\* C12 as stated: after a failed insert, a second or later one included, every
\* event in the queue is eventually dequeued and its insert attempted.
C12_AsStated == Serviced

C12_ErrStep ==
    (cpc = "errsend" /\ cpc' # "errsend") =>
        /\ errors' = Append(errors, "insert")
        /\ events' = events

\* C12: the Postgres committer sends the error of a failed insert on the error
\* feed and goes on with the queue; provided the one-slot error feed has room
\* again and again (it is being read), every event in the queue after a failed
\* insert is eventually dequeued and its insert attempted.
C12_ContinuesWhenFeedIsRead ==
    /\ [][C12_ErrStep]_vars
    /\ ([]<>(Len(errors) < ErrCap)) => Serviced

\* two inserts failed and the event of a later call was inserted
C12_Witness ==
    /\ faults = 0
    /\ Len(persisted) = 1
    /\ persisted[1].id = PgCalls
    /\ Len(applied) = PgCalls


\* C13: the PUT and DELETE handlers answer success as soon as the enqueue has
\* returned, whatever becomes of the durable write: every answer is a success
\* for a call whose enqueue returned, and a handler whose enqueue returned can
\* answer at once, whether the event is queued, written, failed or dropped.
C13_FireAndForget ==
    /\ \A r \in responded : r.status = "success" /\ r.id \in Range(enq)
    /\ \A id \in Range(enq) \ Answered : ENABLED HandlerRespond(id)

\* the client was answered success while its event was still queued; the
\* write of that event then failed and the file committer has ended, so the
\* event is never persisted
C13_Witness ==
    /\ backend = "file"
    /\ cpc = "halted"
    /\ ce.id \notin Ids(persisted)
    /\ \E r \in responded : r.id = ce.id /\ r.queued /\ r.status = "success"


OpsOn(k) == {i \in DOMAIN ops : ops[i].key = k}
LastOp(k) == ops[CHOOSE i \in OpsOn(k) : \A j \in OpsOn(k) : j <= i]

LinesAtRun == Len(file) - Len(recorded)

\* C15: file backend; whenever initializeTransactionLog has replayed an
\* existing log, called Run and returned nil, every line the committer appends
\* afterwards carries a sequence strictly greater than every sequence that
\* was already in the file.
C15_SequenceSpaceContinues ==
    (backend = "file" /\ dpc = "live" /\ err = Nil /\ LinesAtRun >= 1) =>
        \A i \in (LinesAtRun + 1)..Len(file), j \in 1..LinesAtRun :
            Atoi(file[j][1]) < Atoi(file[i][1])


Halted == backend = "file" /\ cpc = "halted"

\* C16 as stated: every WritePut or WriteDelete call made after the file
\* committer ended on a write failure never returns.
C16_AsStated == [][(Halted /\ calls' = calls + 1) => calls' \notin Range(enq')]_vars

C16_HaltedStep ==
    Halted =>
        /\ IsPrefix(events, events')
        /\ ((Len(events) < QueueCap /\ calls' = calls + 1) => calls' \in Range(enq'))
        /\ (Len(events) = QueueCap =>
               /\ events' = events
               /\ enq' = enq
               /\ blocked \subseteq blocked'
               /\ (calls' = calls + 1 => calls' \in {c.id : c \in blocked'}))

\* C16: after the file committer ended on a write failure nothing leaves the
\* queue; a call made while the queue has room still returns, and once the
\* queue holds QueueCap events every call made, and every call already
\* waiting, never returns.
C16_BlocksOnceQueueFull == [][C16_HaltedStep]_vars

\* the committer has ended, calls made since have filled the queue and a
\* later caller waits
C16_Witness ==
    /\ Halted
    /\ Len(events) = QueueCap
    /\ \E c \in blocked : \A i \in DOMAIN events : c.id > events[i].id


\* C17: with a consumer that keeps receiving, every ReadEvents pass ends with
\* the goroutine finished and both streams closed, whether it reached the end
\* of the storage or sent an error; at most one error is ever sent, and no
\* event is delivered after it.
C17_ReplayTerminates ==
    /\ <>(rpc = "done" /\ errClosed /\ evtClosed)
    /\ [](Len(emitted) <= 1)
    /\ [][emitted # << >> => delivered' = delivered]_vars

\* a pass that delivered an event, then sent an error, and has ended
C17_Witness ==
    /\ rpc = "done"
    /\ errClosed
    /\ evtClosed
    /\ Len(emitted) = 1
    /\ \E i \in DOMAIN delivered : delivered[i].EventType # 0


\* the replay goroutine is past its last assignment to lastSequence: it has
\* sent its error or reached the end, and only the deferred closes remain
ReplayPastWrites == rpc \in {"closeErr", "closeEvt", "done"}

\* C18: the replay goroutine and the committer never assign lastSequence
\* concurrently: from the moment Run has started the committer, the replay
\* goroutine of that process is past its last write to lastSequence, so each
\* of its writes comes before the committer's first.
C18_NoConcurrentSequenceWrites ==
    /\ cpc # "none" => ReplayPastWrites
    /\ recorded # << >> => ReplayPastWrites

\* a file log was replayed, which set lastSequence, and the committer started
\* after it has appended a line
C18_Witness ==
    /\ backend = "file"
    /\ restarts >= 1
    /\ \E i \in DOMAIN delivered : delivered[i].EventType # 0
    /\ recorded # << >>
    /\ lastSequence > delivered[1].Sequence


ParkedIds == {c.id : c \in parked}

C19_Inv ==
    \A c \in parked :
        /\ c.id \notin Range(enq)
        /\ c.id \notin Ids(events)
        /\ c.id \notin Ids(persisted)
        /\ c.id \notin Range(applied)

C19_Step ==
    /\ parked \subseteq parked'
    /\ (cpc = "none" /\ calls' = calls + 1) => calls' \in ParkedIds'

\* C19: a WritePut or WriteDelete call made before Run() waits on the nil
\* channel: it never returns, and its event is never enqueued, persisted or
\* applied, also after Run() has been called.
C19_CallBeforeRunNeverReturns == []C19_Inv /\ [][C19_Step]_vars

\* a call made before Run still waits after Run was called and after a later
\* call has been persisted
C19_Witness ==
    /\ cpc # "none"
    /\ \E c \in parked : \E i \in DOMAIN persisted : persisted[i].id > c.id


RealOp(e) == e.EventType \in {EventDelete, EventPut}

RECURSIVE StoreAfter(_)
\* the store after the PUT and DELETE events of d, in order, and no others
StoreAfter(d) ==
    IF d = << >> THEN EmptyStore
    ELSE LET m == StoreAfter(SubSeq(d, 1, Len(d) - 1))
             e == d[Len(d)]
         IN  IF e.EventType = EventPut THEN Put(m, e.Key, e.Value)
             ELSE IF e.EventType = EventDelete THEN Delete(m, e.Key)
             ELSE m

C20_Inv ==
    /\ EventDelete = 1
    /\ EventPut = 2
    /\ ZeroEvent.EventType = 0
    /\ \A i \in DOMAIN events : events[i].e.EventType \in {1, 2}
    /\ count = Cardinality({i \in DOMAIN delivered : RealOp(delivered[i])})
    /\ cpc = "none" => store = StoreAfter(delivered)

\* a receive of the driver's loop that carries no PUT and no DELETE: a record
\* of another type, or the zero event of the closed event stream
C20_EmptyReceive ==
    /\ dpc = "loop"
    /\ \/ rpc = "send" /\ delivered' # delivered /\ ~RealOp(re)
       \/ evtClosed /\ dpc' = "run" /\ err' = err

C20_Step == C20_EmptyReceive => (store' = store /\ count' = count)

\* C20: the event types are DELETE = 1 and PUT = 2, never 0; every event
\* WritePut/WriteDelete enqueue has type 1 or 2; and a receive of the recovery
\* driver that carries no real operation (a record of type 0, or the zero
\* event of the closed event stream) leaves the store and the count as they
\* were, so the count is the number of PUT and DELETE events applied.
C20_ZeroTypeIsNoOp == []C20_Inv /\ [][C20_Step]_vars

\* replay delivered a record of type 0 and a real one, the closed stream was
\* received, and a call made since is in the queue
C20_Witness ==
    /\ dpc = "live"
    /\ \E i \in DOMAIN delivered : delivered[i].EventType = 0
    /\ count = 1
    /\ store # EmptyStore
    /\ events # << >>

====
